---- MODULE Spec2Model ----
\* Blue Marble Online: the WebSocket game server (GameServer in
\* src/server/client/websocket-client.js), modelled as a state machine.
\* Every handler is a function of the server's state and the request: it
\* yields the registry, the directory and the id counter it leaves behind,
\* and the messages it delivers. One action per event applies the handler:
\* a new connection, a transport close, the 'close' callback, and one action
\* per inbound message type. Node runs each callback to completion, so every
\* handler is one atomic step.
EXTENDS Integers, Sequences, FiniteSets, Bags, TLC

\* ------------------------------------------------------------------ bounds
\* Number of WebSocket objects that ever connect, numbered in the order they
\* connect (a closed one is never reused).
NumConns == 2
\* Number of player ids generatePlayerId hands out in one run.
MaxPids == 2
\* Number of dice results the client's GameState processes in one run.
MaxRolls == 7
\* Number of dice results the GameState processes in a run with purchases.
MaxLandings == 2
\* Number of handler runs that deliver an event in a run that keeps the inboxes.
MaxEvents == 3

\* ------------------------------------------------------------ program values
Conns == 1..NumConns
\* excludeWs = null in broadcastToRoom
NoWs == 0
\* clientInfo.playerId = null; generated ids are 1, 2, ...
NoId == 0
\* clientInfo.roomId = null
NoRoom == "null"
\* The values generateRoomId can return. The code draws six base-36 characters
\* from Math.random with no look-up in the directory, so any value can come
\* back, one already in use included; two values are enough to show both cases.
RoomIds == {"R1", "R2"}
\* room.gameState = null / gameState.lastDiceRoll = null
Null == [null |-> TRUE]
\* A frame whose JSON has no payload member
NoPayload == [missing |-> TRUE]
\* const { playerName, maxPlayers = 4 } = payload
DefaultMaxPlayers == 4
\* Math.floor(Math.random() * 6) + 1
DieFaces == 6
\* Math.floor(Math.random() * n): Math.random() is in [0, 1)
RandomInt(n) == 0..(n - 1)
\* Every face a die can show
DieValues == {draw + 1 : draw \in RandomInt(DieFaces)}
\* Math.floor(Math.random() * 6) for the draws the model makes: the smallest
\* and the largest value it can have
Draws == {0, DieFaces - 1}
\* The faces a die shows in the model
Dice == {draw + 1 : draw \in Draws}
StartMoney == 2000000
\* maxPlayers values a create_room payload carries in the model: one below the
\* documented range 2..4, and the largest roster the model can build, so that
\* a room can be filled.
MaxPlayersInputs == {0, MaxPids}
\* tileId values a buy_property / build payload carries in the model: the first
\* and the last tile of the board
TileIds == {0, 39}
\* The faces of the dice in the results the client's GameState is given in the
\* model: the doubles 8 and 12 and the total 10, which from the start leads
\* to Deserted Island
RolledDice == {4, 6}
\* Math.floor(Math.random() * 40) of Space Travel for the draws the model
\* makes: Deserted Island and the last tile
TeleportDraws == {10, 39}

VARIABLES
  wsState,   \* ws -> "new" | "open" | "closed" | "gone"  (ws.readyState, and whether 'close' has run)
  clients,   \* this.clients: ws -> [playerId, roomId]
  rooms,     \* this.rooms: roomId -> [hostId, maxPlayers, players, gameState, isStarted]
  nextPid,   \* the next id generatePlayerId returns
  gameState, \* the client's GameState: [players, currentPlayerIndex, gamePhase, turnPhase]
  tiles,     \* the client's tileRenderer.tiles: tileId -> [owner, level]
  timers,    \* the client's pending setTimeout / requestAnimationFrame callbacks, a bag
  rolls,     \* the number of dice results the client's GameState has processed
  gameServerState, \* the client's mirror of the server's game: [currentPlayerId]
  inbox,     \* ws -> what the socket of ws has carried to its client, in order of arrival
  committed  \* the number of handler runs that have delivered an event

serverVars == <<wsState, clients, rooms, nextPid>>

clientVars == <<gameState, tiles, timers, rolls, gameServerState>>

wireVars == <<inbox, committed>>

vars == <<wsState, clients, rooms, nextPid, gameState, tiles, timers, rolls, gameServerState,
          inbox, committed>>

\* ------------------------------------------------------------ Map helpers
\* room.players is a JS Map: keys in insertion order; set() of a present key
\* keeps its place; delete() of an absent key does nothing.
Keys(players) == [i \in 1..Len(players) |-> players[i].id]

HasKey(players, id) == \E i \in 1..Len(players) : players[i].id = id

MapSet(players, id, player) ==
  IF HasKey(players, id)
    THEN [i \in 1..Len(players) |-> IF players[i].id = id THEN player ELSE players[i]]
    ELSE Append(players, player)

MapDelete(players, id) == SelectSeq(players, LAMBDA p : p.id # id)

\* Array.prototype.indexOf, 0-based, -1 when absent
IndexOf(seq, x) ==
  IF \E i \in 1..Len(seq) : seq[i] = x
    THEN (CHOOSE i \in 1..Len(seq) : seq[i] = x /\ \A j \in 1..(i - 1) : seq[j] # x) - 1
    ELSE -1

\* ------------------------------------------------------------ sending
NoOutput == [w \in Conns |-> <<>>]

\* send(ws, message): only when ws.readyState === OPEN
send(out, ws, message) ==
  IF wsState[ws] = "open" THEN [out EXCEPT ![ws] = Append(@, message)] ELSE out

\* sendError that reports the error to every open connection
sendError_ToAll(out, ws, errorMessage) ==
  [w \in Conns |-> IF wsState[w] = "open"
                     THEN Append(out[w], [type |-> "error", message |-> errorMessage])
                     ELSE out[w]]

sendError(out, ws, errorMessage) ==
  send(out, ws, [type |-> "error", message |-> errorMessage])

RECURSIVE forEachPlayer(_, _, _, _)
forEachPlayer(out, players, message, excludeWs) ==
  IF players = <<>> THEN out
  ELSE LET player == Head(players) IN
       forEachPlayer(
         IF player.ws # excludeWs /\ wsState[player.ws] = "open"
           THEN send(out, player.ws, message) ELSE out,
         Tail(players), message, excludeWs)

\* broadcastToRoom that sends to the players of every room of the directory
broadcastToRoom_EveryRoom(out, rms, roomId, message, excludeWs) ==
  [w \in Conns |->
     IF /\ w # excludeWs
        /\ wsState[w] = "open"
        /\ \E r \in DOMAIN rms : \E i \in DOMAIN rms[r].players : rms[r].players[i].ws = w
       THEN Append(out[w], message)
       ELSE out[w]]

\* broadcastToRoom(roomId, message, excludeWs) against the directory rms
broadcastToRoom(out, rms, roomId, message, excludeWs) ==
  IF roomId \notin DOMAIN rms THEN out
  ELSE forEachPlayer(out, rms[roomId].players, message, excludeWs)

\* ------------------------------------------------------------ handlers
\* What a handler leaves behind: registry, directory, id counter, and the
\* messages it delivered to each connection, in order
Outcome(cl, rms, pid, out) == [clients |-> cl, rooms |-> rms, nextPid |-> pid, sent |-> out]

\* A handler that returns without touching the state
Untouched(out) == Outcome(clients, rooms, nextPid, out)

\* generateRoomId(): the values one call can return
generateRoomId == RoomIds

\* generatePlayerId(): eleven base-36 characters from Math.random. The data
\* model calls player ids unique and nothing here is about two of them
\* colliding, so the model hands out ids that were never issued before
\* (1, 2, ...), in the order they are asked for.
generatePlayerId == nextPid

\* The frame is JSON, the type is known, but handling it throws (a missing
\* payload is destructured): the catch in ws.on('message') reports it.
InvalidMessage(ws) == sendError(NoOutput, ws, "Invalid message format")

\* maxPlayers of a create_room payload, with the destructuring default
PayloadMaxPlayers(payload) ==
  IF "maxPlayers" \in DOMAIN payload THEN payload.maxPlayers ELSE DefaultMaxPlayers

\* The room record handleCreateRoom builds
NewRoom(playerId, maxPlayers, ws) ==
  [hostId |-> playerId,
   maxPlayers |-> maxPlayers,
   players |-> <<[id |-> playerId, ws |-> ws]>>,
   gameState |-> Null,
   isStarted |-> FALSE]

\* rooms.set(roomId, room)
RoomsSet(rms, roomId, room) == (roomId :> room) @@ rms

\* handleCreateRoom(ws, payload), generateRoomId having returned roomId
handleCreateRoom(ws, payload, roomId) ==
  IF payload = NoPayload THEN Untouched(InvalidMessage(ws))
  ELSE LET playerId == generatePlayerId
           room == NewRoom(playerId, PayloadMaxPlayers(payload), ws)
       IN Outcome([clients EXCEPT ![ws] = [playerId |-> playerId, roomId |-> roomId]],
                  RoomsSet(rooms, roomId, room),
                  nextPid + 1,
                  send(NoOutput, ws, [type |-> "room_created", roomId |-> roomId,
                                      playerId |-> playerId, isHost |-> TRUE]))

\* handleJoinRoom without its test of the started flag
JoinRefusal_NoStartedTest(rms, roomId) ==
  IF roomId \notin DOMAIN rms THEN "Room not found"
  ELSE IF Len(rms[roomId].players) >= rms[roomId].maxPlayers THEN "Room is full"
  ELSE ""

\* The three refusals of handleJoinRoom, in the order the code tests them;
\* "" when the request is accepted
JoinRefusal(rms, roomId) ==
  IF roomId \notin DOMAIN rms THEN "Room not found"
  ELSE IF rms[roomId].isStarted THEN "Game already started"
  ELSE IF Len(rms[roomId].players) >= rms[roomId].maxPlayers THEN "Room is full"
  ELSE ""

handleJoinRoom(ws, payload) ==
  IF payload = NoPayload THEN Untouched(InvalidMessage(ws))
  ELSE IF JoinRefusal(rooms, payload.roomId) # ""
    THEN Untouched(sendError(NoOutput, ws, JoinRefusal(rooms, payload.roomId)))
  ELSE LET roomId == payload.roomId
           playerId == generatePlayerId
           joined == [rooms[roomId] EXCEPT !.players =
                        MapSet(@, playerId, [id |-> playerId, ws |-> ws])]
           rms == [rooms EXCEPT ![roomId] = joined]
           out == send(NoOutput, ws,
                       [type |-> "room_joined", roomId |-> roomId,
                        playerId |-> playerId, isHost |-> FALSE,
                        players |-> Keys(joined.players)])
       IN Outcome([clients EXCEPT ![ws] = [playerId |-> playerId, roomId |-> roomId]],
                  rms,
                  nextPid + 1,
                  broadcastToRoom(out, rms, roomId,
                                  [type |-> "player_joined", playerId |-> playerId], ws))

\* handleLeaveRoom takes effect only for a connection whose record names a
\* room that is in the directory
LeaveApplies(ws) ==
  /\ ws \in DOMAIN clients
  /\ clients[ws].roomId # NoRoom
  /\ clients[ws].roomId \in DOMAIN rooms

\* handleLeaveRoom without the deletion of a room whose roster is empty
handleLeaveRoom_KeepsEmptyRoom(ws) ==
  IF ~LeaveApplies(ws) THEN Untouched(NoOutput)
  ELSE LET info == clients[ws]
           left == [rooms[info.roomId] EXCEPT !.players = MapDelete(@, info.playerId)]
           rms == [rooms EXCEPT ![info.roomId] = left]
       IN Outcome([clients EXCEPT ![ws] = [playerId |-> NoId, roomId |-> NoRoom]],
                  rms,
                  nextPid,
                  broadcastToRoom(NoOutput, rms, info.roomId,
                                  [type |-> "player_left", playerId |-> info.playerId], NoWs))

\* The roster entry of the record's player id is deleted, player_left goes to
\* the roster that remains, the room is deleted when that roster is empty, and
\* the record is reset
handleLeaveRoom(ws) ==
  IF ~LeaveApplies(ws) THEN Untouched(NoOutput)
  ELSE LET info == clients[ws]
           left == [rooms[info.roomId] EXCEPT !.players = MapDelete(@, info.playerId)]
           rms == [rooms EXCEPT ![info.roomId] = left]
       IN Outcome([clients EXCEPT ![ws] = [playerId |-> NoId, roomId |-> NoRoom]],
                  IF Len(left.players) = 0
                    THEN [r \in DOMAIN rooms \ {info.roomId} |-> rooms[r]]
                    ELSE rms,
                  nextPid,
                  broadcastToRoom(NoOutput, rms, info.roomId,
                                  [type |-> "player_left", playerId |-> info.playerId], NoWs))

\* handleDisconnect that only drops the registry record
handleDisconnect_NoLeave(ws) ==
  Outcome([w \in DOMAIN clients \ {ws} |-> clients[w]], rooms, nextPid, NoOutput)

\* handleDisconnect(ws): leave the room, then drop the registry record
handleDisconnect(ws) ==
  LET left == handleLeaveRoom(ws)
  IN Outcome([w \in DOMAIN clients \ {ws} |-> left.clients[w]],
             left.rooms, left.nextPid, left.sent)

\* clientInfo and room as every game handler looks them up
InfoOf(ws) == clients[ws]

HasRoom(ws) == clients[ws].roomId \in DOMAIN rooms

RoomOf(ws) == rooms[clients[ws].roomId]

\* !room || !room.gameState
NoGame(ws) == ~HasRoom(ws) \/ RoomOf(ws).gameState = Null

\* initializeGameState giving the first turn to the last player that joined
initializeGameState_LastFirst(room) ==
  LET playerIds == Keys(room.players) IN
  [currentPlayerId |-> playerIds[Len(playerIds)],
   players |-> [i \in 1..Len(playerIds) |->
                  [id |-> playerIds[i], position |-> 0, money |-> StartMoney,
                   properties |-> <<>>, inJail |-> FALSE]],
   lastDiceRoll |-> Null]

\* initializeGameState(room)
initializeGameState(room) ==
  LET playerIds == Keys(room.players) IN
  [currentPlayerId |-> playerIds[1],
   players |-> [i \in 1..Len(playerIds) |->
                  [id |-> playerIds[i], position |-> 0, money |-> StartMoney,
                   properties |-> <<>>, inJail |-> FALSE]],
   lastDiceRoll |-> Null]

\* handleStartGame without its test of the host
StartRefusal_NoHostTest(ws) ==
  IF ~HasRoom(ws) THEN "Room not found"
  ELSE IF Len(RoomOf(ws).players) < 2 THEN "Need at least 2 players"
  ELSE ""

\* The refusals of handleStartGame, in the order the code tests them
StartRefusal(ws) ==
  IF ~HasRoom(ws) THEN "Room not found"
  ELSE IF RoomOf(ws).hostId # InfoOf(ws).playerId THEN "Only host can start game"
  ELSE IF Len(RoomOf(ws).players) < 2 THEN "Need at least 2 players"
  ELSE ""

handleStartGame(ws) ==
  IF StartRefusal(ws) # "" THEN Untouched(sendError(NoOutput, ws, StartRefusal(ws)))
  ELSE LET roomId == InfoOf(ws).roomId
           started == [RoomOf(ws) EXCEPT !.isStarted = TRUE,
                                         !.gameState = initializeGameState(RoomOf(ws))]
           rms == [rooms EXCEPT ![roomId] = started]
       IN Outcome(clients, rms, nextPid,
                  broadcastToRoom(NoOutput, rms, roomId,
                                  [type |-> "game_started", gameState |-> started.gameState],
                                  NoWs))

\* handleRollDice without its test of the turn
RollRefusal_NoTurnTest(ws) ==
  IF NoGame(ws) THEN "Game not started" ELSE ""

\* The refusals of handleRollDice, in the order the code tests them
RollRefusal(ws) ==
  IF NoGame(ws) THEN "Game not started"
  ELSE IF RoomOf(ws).gameState.currentPlayerId # InfoOf(ws).playerId THEN "Not your turn"
  ELSE ""

\* A diceResult whose double flag is set by the first die alone
DiceResult_DoubleOnSix(dice1, dice2) ==
  [dice |-> <<dice1, dice2>>, total |-> dice1 + dice2, isDouble |-> (dice1 = DieFaces)]

\* The diceResult object built from the two dice
DiceResult(dice1, dice2) ==
  [dice |-> <<dice1, dice2>>, total |-> dice1 + dice2, isDouble |-> (dice1 = dice2)]

\* DiceRoller of the client: the object animateRoll hands to rollCallback for
\* the results roll() drew
rollCallback(results) ==
  [dice |-> results, total |-> results[1] + results[2], isDouble |-> (results[1] = results[2])]

\* handleRollDice(ws), the two draws having given dice1 and dice2
handleRollDice(ws, dice1, dice2) ==
  IF RollRefusal(ws) # "" THEN Untouched(sendError(NoOutput, ws, RollRefusal(ws)))
  ELSE LET roomId == InfoOf(ws).roomId
           diceResult == DiceResult(dice1, dice2)
       IN Outcome(clients,
                  [rooms EXCEPT ![roomId].gameState.lastDiceRoll = diceResult],
                  nextPid,
                  broadcastToRoom(NoOutput, rooms, roomId,
                                  [type |-> "dice_rolled", playerId |-> InfoOf(ws).playerId,
                                   diceResult |-> diceResult], NoWs))

\* handleBuyProperty / handleBuild: the same code but for the event's type.
\* Nothing is sent when there is no game; the payload is destructured after
\* that test.
Announce(ws, payload, type) ==
  IF NoGame(ws) THEN NoOutput
  ELSE IF payload = NoPayload THEN InvalidMessage(ws)
  ELSE broadcastToRoom(NoOutput, rooms, InfoOf(ws).roomId,
         [type |-> type, playerId |-> InfoOf(ws).playerId, tileId |-> payload.tileId], NoWs)

handleBuyProperty(ws, payload) == Untouched(Announce(ws, payload, "property_bought"))

handleBuild(ws, payload) == Untouched(Announce(ws, payload, "building_built"))

\* handleEndTurn without the wrap from the last player to the first
NextPlayerId_NoWrap(room) ==
  LET playerIds == Keys(room.players)
      currentIndex == IndexOf(playerIds, room.gameState.currentPlayerId)
      nextIndex == IF currentIndex + 1 >= Len(playerIds) THEN currentIndex ELSE currentIndex + 1
  IN playerIds[nextIndex + 1]

\* The player id handleEndTurn moves the turn to
NextPlayerId(room) ==
  LET playerIds == Keys(room.players)
      currentIndex == IndexOf(playerIds, room.gameState.currentPlayerId)
      nextIndex == (currentIndex + 1) % Len(playerIds)
  IN playerIds[nextIndex + 1]

\* GameState.nextTurn of the client: the index of the player whose turn is next
nextTurn(currentPlayerIndex, numPlayers) == (currentPlayerIndex + 1) % numPlayers

handleEndTurn(ws) ==
  IF NoGame(ws) THEN Untouched(NoOutput)
  ELSE LET roomId == InfoOf(ws).roomId
           next == NextPlayerId(RoomOf(ws))
           rms == [rooms EXCEPT ![roomId].gameState.currentPlayerId = next]
       IN Outcome(clients, rms, nextPid,
                  broadcastToRoom(NoOutput, rms, roomId,
                                  [type |-> "turn_changed", currentPlayerId |-> next], NoWs))

handleChat(ws, payload) ==
  Untouched(IF payload = NoPayload THEN InvalidMessage(ws)
            ELSE IF InfoOf(ws).roomId = NoRoom THEN NoOutput
            ELSE broadcastToRoom(NoOutput, rooms, InfoOf(ws).roomId,
                   [type |-> "chat_message", playerId |-> InfoOf(ws).playerId], NoWs))

\* handleMessage, default case
handleUnknownType(ws) == Untouched(sendError(NoOutput, ws, "Unknown message type"))

\* ws.on('message') when JSON.parse throws
handleUnparsable(ws) == Untouched(InvalidMessage(ws))

\* ------------------------------------------------------------ client: GameState
\* The GameState object of the client (src/unnamed/part_000) with the board of
\* its TileRenderer. handleDiceRoll, nextTurn and initializePlayers are its
\* methods; setTimeout and requestAnimationFrame callbacks that are pending are
\* kept in timers and run one at a time, in any order.

\* initializePlayers(numPlayers = 2)
DefaultNumPlayers == 2
\* (startPosition + diceRoll) % 40
BoardSize == 40
\* player.money += 200000
Salary == 200000
\* player.position = 10
JailPosition == 10
\* player.jailTurns = 3
JailTurns == 3
\* player.doublesCount >= 3
DoublesLimit == 3
\* tile.userData.owner = null; an owner is a player id 0, 1, ...
NoOwner == -1

City(name, price, rent) == [name |-> name, type |-> "city", price |-> price, rent |-> rent]

\* Special and chance tiles have no rent member (tileInfo.rent || 0 where it is read)
Special(name, price) == [name |-> name, type |-> "special", price |-> price, rent |-> 0]

Chance == [name |-> "Chance", type |-> "chance", price |-> 0, rent |-> 0]

\* TileRenderer.initializeTileData(), entry i + 1 being the tile with id i
tileData ==
  << Special("Start", 0), City("Taipei", 50000, 2000), Chance,
     City("Beijing", 80000, 4000), City("Manila", 80000, 4000),
     Special("Jeju Island", 200000), City("Singapore", 100000, 6000), Chance,
     City("Cairo", 100000, 6000), City("Istanbul", 120000, 8000),
     Special("Deserted Island", 0), City("Athens", 140000, 10000),
     Special("Social Welfare", 0), City("Copenhagen", 160000, 13000),
     City("Stockholm", 160000, 13000), Special("Concorde", 200000),
     City("Bern", 180000, 15000), Chance, City("Berlin", 180000, 15000),
     City("Ottawa", 200000, 18000), Special("Free Pass", 0),
     City("Buenos Aires", 220000, 20000), Chance, City("Sao Paulo", 240000, 22000),
     City("Sydney", 240000, 22000), Special("Busan", 200000),
     City("Hawaii", 260000, 25000), City("Lisboa", 260000, 25000),
     Special("Social Welfare", 0), City("Madrid", 280000, 28000),
     Special("Space Travel", 0), City("Tokyo", 300000, 35000), Chance,
     City("Paris", 320000, 38000), City("Rome", 320000, 38000),
     Special("Columbia", 200000), City("London", 350000, 50000), Chance,
     City("New York", 350000, 50000), City("Seoul", 1000000, 200000) >>

getTileInfo(tileId) == [id |-> tileId] @@ tileData[tileId + 1]

\* The player object initializePlayers pushes for index i
NewPlayer(i) ==
  [id |-> i, position |-> 0, money |-> StartMoney, properties |-> <<>>,
   inJail |-> FALSE, jailTurns |-> 0, doublesCount |-> 0]

\* What a method or callback of GameState leaves behind
GameOutcome(gs, tl, tm) == [gameState |-> gs, tiles |-> tl, timers |-> tm]

GameUntouched == GameOutcome(gameState, tiles, timers)

\* setTimeout / requestAnimationFrame: one more pending callback
Schedule(tm, callback) == tm (+) SetToBag({callback})

\* animatePlayerMovement(player, fromPos, toPos) with steps to make: the chain
\* of moveStep callbacks, which ends in onPlayerLanded(player)
MoveStepTimer(playerId) == [callback |-> "moveStep", player |-> playerId, tileId |-> -1]

\* onPlayerLanded(player): handleTileAction(player, tileInfo) after a second,
\* tileInfo being the tile of the position the player has now
TileActionTimer(playerId, tileId) ==
  [callback |-> "handleTileAction", player |-> playerId, tileId |-> tileId]

\* initializePlayers(numPlayers); syncGameFromServer has emptied the player
\* list and set currentPlayerIndex to 0 before it
initializePlayers(numPlayers) ==
  LET n == IF numPlayers > 4 THEN 4 ELSE numPlayers
  IN GameOutcome([players |-> [i \in 1..n |-> NewPlayer(i - 1)],
                  currentPlayerIndex |-> 0,
                  gamePhase |-> "PLAYING",
                  turnPhase |-> "ROLL"],
                 tiles, timers)

\* getCurrentPlayer()
getCurrentPlayer == gameState.players[gameState.currentPlayerIndex + 1]

\* movePlayer with the salary paid on every move
movePlayer_AlwaysSalary(player, diceRoll) ==
  [player EXCEPT !.position = (player.position + diceRoll) % BoardSize,
                 !.money = @ + Salary]

\* movePlayer(playerId, diceRoll), on the player object it finds: the new
\* position and the salary (the animation it starts is in handleDiceRoll)
movePlayer(player, diceRoll) ==
  LET startPosition == player.position
      endPosition == (startPosition + diceRoll) % BoardSize
  IN [player EXCEPT !.position = endPosition,
                    !.money = IF endPosition < startPosition THEN @ + Salary ELSE @]

\* The third-double test with the limit one higher
ThirdDouble_OneMore(player) == player.doublesCount >= DoublesLimit + 1

\* player.doublesCount >= 3
ThirdDouble(player) == player.doublesCount >= DoublesLimit

\* handleDiceRoll, "Handle doubles": the counter after this roll
CountDoubles(player, diceResult) ==
  [player EXCEPT !.doublesCount = IF diceResult.isDouble THEN @ + 1 ELSE 0]

\* A jail roll that leaves the jailed flag set when the count runs out
JailRoll_KeepsFlag(player, diceResult) ==
  IF diceResult.isDouble THEN [player EXCEPT !.inJail = FALSE, !.jailTurns = 0]
  ELSE [player EXCEPT !.jailTurns = @ - 1]

\* handleDiceRoll, "Handle jail", for a player that is in jail
JailRoll(player, diceResult) ==
  IF diceResult.isDouble THEN [player EXCEPT !.inJail = FALSE, !.jailTurns = 0]
  ELSE IF player.jailTurns - 1 <= 0
    THEN [player EXCEPT !.jailTurns = @ - 1, !.inJail = FALSE]
    ELSE [player EXCEPT !.jailTurns = @ - 1]

\* The game state with the current player replaced and the phase set
WithCurrent(player, turnPhase) ==
  [gameState EXCEPT !.players[gameState.currentPlayerIndex + 1] = player,
                    !.turnPhase = turnPhase]

\* animatePlayerMovement(player, fromPos, toPos): the tiles the token is moved
\* to, one for each run of moveStep that makes a step. steps is
\* Math.abs(toPos - fromPos) and step currentStep goes to the tile
\* (fromPos + currentStep) % 40; the run that finds currentStep >= steps calls
\* onPlayerLanded.
animatePlayerMovement(fromPos, toPos) ==
  LET steps == IF toPos >= fromPos THEN toPos - fromPos ELSE fromPos - toPos
  IN [currentStep \in 1..steps |-> (fromPos + currentStep) % BoardSize]

\* handleDiceRoll(diceResult). Before initializePlayers there is no current
\* player and the method throws at its first use of it: nothing has changed.
handleDiceRoll(diceResult) ==
  IF gameState.turnPhase # "ROLL" \/ gameState.players = <<>> THEN GameUntouched
  ELSE LET counted == CountDoubles(getCurrentPlayer, diceResult)
           jailed == IF counted.inJail THEN JailRoll(counted, diceResult) ELSE counted
       IN IF diceResult.isDouble /\ ThirdDouble(counted)
            THEN GameOutcome(
                   WithCurrent([counted EXCEPT !.inJail = TRUE, !.jailTurns = JailTurns,
                                               !.position = JailPosition,
                                               !.doublesCount = 0], "END_TURN"),
                   tiles, timers)
          ELSE IF jailed.inJail
            THEN GameOutcome(WithCurrent(jailed, "END_TURN"), tiles, timers)
          ELSE GameOutcome(WithCurrent(movePlayer(jailed, diceResult.total), "MOVE"),
                           tiles, Schedule(timers, MoveStepTimer(jailed.id)))

\* nextTurn()
nextTurnOutcome ==
  GameOutcome([gameState EXCEPT
                 !.currentPlayerIndex = nextTurn(@, Len(gameState.players)),
                 !.turnPhase = "ROLL"],
              tiles, timers)

\* The end of the moveStep chain: onPlayerLanded(player)
onPlayerLanded(playerId) ==
  GameOutcome(gameState, tiles,
              Schedule(timers, TileActionTimer(playerId,
                                               gameState.players[playerId + 1].position)))

\* calculateRent(tileInfo, buildingLevel): Math.floor(baseRent * (1 + level * 0.5))
calculateRent(tileInfo, buildingLevel) ==
  (tileInfo.rent * (2 + buildingLevel)) \div 2

\* The owner id recorded on a tile is not an index of this.players:
\* this.players[owner] is undefined and reading its money throws a TypeError
NoSuchPlayer(players, owner) == owner + 1 \notin DOMAIN players

\* handleCityTile(player, tileInfo) on the list of players; !owner holds of
\* null and of the player id 0. The payer is debited before this.players[owner]
\* is read, so the debit stays when that read throws.
handleCityTile(players, playerId, tileInfo) ==
  LET owner == tiles[tileInfo.id].owner
      rent == calculateRent(tileInfo, tiles[tileInfo.id].level)
  IN IF owner = NoOwner \/ owner = 0 THEN players
     ELSE IF owner # playerId
       THEN IF NoSuchPlayer(players, owner)
              THEN [players EXCEPT ![playerId + 1].money = @ - rent]
              ELSE [players EXCEPT ![playerId + 1].money = @ - rent,
                                   ![owner + 1].money = @ + rent]
     ELSE players

\* handleCityTile throws: the tile has an owner that is not the player and is
\* not an index of this.players
CityTileThrows(playerId, tileInfo) ==
  LET owner == tiles[tileInfo.id].owner
  IN /\ tileInfo.type = "city"
     /\ owner # NoOwner
     /\ owner # 0
     /\ owner # playerId
     /\ NoSuchPlayer(gameState.players, owner)

\* handleSpecialTile(player, tileInfo), the draw of Space Travel having given newPos
handleSpecialTile(players, playerId, tileInfo, newPos) ==
  IF tileInfo.name = "Deserted Island"
    THEN [players EXCEPT ![playerId + 1].inJail = TRUE, ![playerId + 1].jailTurns = JailTurns]
  ELSE IF tileInfo.name = "Space Travel"
    THEN [players EXCEPT ![playerId + 1].position = newPos]
  ELSE players

\* handleTileAction(player, tileInfo). Space Travel calls animatePlayerMovement
\* from the new position to the new position: no step to make, onPlayerLanded
\* runs at once and schedules the action of the new tile. When handleCityTile
\* throws, the assignment of END_TURN after the switch is not reached.
handleTileAction(playerId, tileId, newPos) ==
  LET tileInfo == getTileInfo(tileId)
      players == IF tileInfo.type = "city"
                   THEN handleCityTile(gameState.players, playerId, tileInfo)
                 ELSE IF tileInfo.type = "special"
                   THEN handleSpecialTile(gameState.players, playerId, tileInfo, newPos)
                 ELSE gameState.players
      turnPhase == IF CityTileThrows(playerId, tileInfo)
                     THEN gameState.turnPhase ELSE "END_TURN"
  IN GameOutcome([gameState EXCEPT !.players = players, !.turnPhase = turnPhase],
                 tiles,
                 IF tileInfo.name = "Space Travel"
                   THEN Schedule(timers, TileActionTimer(playerId, newPos))
                   ELSE timers)

\* 100000 * (currentLevel + 1)
BuildUnit == 100000
\* currentLevel >= 5
MaxLevel == 5

\* A player id the server has issued, as the client holds it: a string, which
\* is never === an id 0, 1, ... of GameState and is no index of this.players.
\* The model writes it as a number above every id of GameState.
WireId(pid) == 100 + pid

\* TileRenderer.updateTile(tileId, data) with data = { owner }
updateOwner(tl, tileId, owner) ==
  IF tileId \in DOMAIN tl THEN [tl EXCEPT ![tileId].owner = owner] ELSE tl

\* TileRenderer.updateTile(tileId, data) with data = { buildingLevel }
updateLevel(tl, tileId, buildingLevel) ==
  IF tileId \in DOMAIN tl THEN [tl EXCEPT ![tileId].level = buildingLevel] ELSE tl

\* this.players.find(p => p.id === playerId) finds a player
FindsPlayer(playerId) == \E i \in DOMAIN gameState.players : gameState.players[i].id = playerId

\* buyProperty(playerId, tileId)
buyProperty(playerId, tileId) ==
  LET tileInfo == getTileInfo(tileId)
  IN IF ~FindsPlayer(playerId) \/ tiles[tileId].owner # NoOwner THEN GameUntouched
     ELSE IF gameState.players[playerId + 1].money >= tileInfo.price
       THEN GameOutcome([gameState EXCEPT
                           !.players[playerId + 1].money = @ - tileInfo.price,
                           !.players[playerId + 1].properties = Append(@, tileId)],
                        updateOwner(tiles, tileId, playerId), timers)
     ELSE GameUntouched

\* buildOnProperty(playerId, tileId)
buildOnProperty(playerId, tileId) ==
  LET currentLevel == tiles[tileId].level
      buildCost == BuildUnit * (currentLevel + 1)
  IN IF ~FindsPlayer(playerId) \/ tiles[tileId].owner # playerId THEN GameUntouched
     ELSE IF currentLevel >= MaxLevel THEN GameUntouched
     ELSE IF gameState.players[playerId + 1].money >= buildCost
       THEN GameOutcome([gameState EXCEPT !.players[playerId + 1].money = @ - buildCost],
                        updateLevel(tiles, tileId, currentLevel + 1), timers)
     ELSE GameUntouched

\* ws.onmessage, case 'property_bought'
onPropertyBought(payload) ==
  IF "tileId" \notin DOMAIN payload THEN GameUntouched
  ELSE GameOutcome(gameState, updateOwner(tiles, payload.tileId, payload.playerId), timers)

\* ws.onmessage, case 'building_built'
onBuildingBuilt(payload) ==
  IF "tileId" \notin DOMAIN payload THEN GameUntouched
  ELSE GameOutcome(gameState, updateLevel(tiles, payload.tileId, 1), timers)

\* syncGameFromServer(state): the mirror it writes, state.currentPlayerId being
\* currentPlayerId (its reset of the GameState is initializePlayers)
syncGameFromServer(currentPlayerId) == [currentPlayerId |-> currentPlayerId]

\* ws.onmessage, case 'turn_changed': the mirror is written and the buttons are
\* set; no method of the GameState is called
onTurnChanged(payload) == [gameServerState EXCEPT !.currentPlayerId = payload.currentPlayerId]

\* ------------------------------------------------------------ inputs
CreateRoomPayloads == {NoPayload} \cup {[maxPlayers |-> m] : m \in MaxPlayersInputs}

JoinRoomPayloads == {NoPayload} \cup {[roomId |-> r] : r \in RoomIds}

TilePayloads == {NoPayload} \cup {[tileId |-> t] : t \in TileIds}

ChatPayloads == {NoPayload, [message |-> "hi"]}

\* The diceResult objects of dice_rolled
DiceResults == {DiceResult(dice1, dice2) : dice1 \in RolledDice, dice2 \in RolledDice}

\* The tiles the purchases, builds and tile events of the model are about:
\* Cairo, where the first roll of a player can land, and Seoul
DealTiles == {8, 39}

\* The ids buyProperty and buildOnProperty are called with: those of the
\* players, and one that is no player's
BuyerIds == 0..DefaultNumPlayers

\* The tile property_bought and building_built are about in the model
EventTiles == {8}

\* The payloads of property_bought and building_built: the id the server has
\* issued to the sender, and the tile of the request if the request had one
EventPayloads ==
  {[playerId |-> WireId(pid), tileId |-> t] : pid \in 1..2, t \in EventTiles}
    \cup {[playerId |-> WireId(1)]}

\* The payloads of turn_changed: the id the server has issued to the player
\* the turn has moved to
TurnPayloads == {[currentPlayerId |-> WireId(pid)] : pid \in 1..DefaultNumPlayers}

\* The dice result that takes a player from Start to Cairo
LandingDice == {DiceResult(4, 4)}

\* ================================================================ claims
\* A claim about a handler is stated of its outcome in every reachable state
\* of the server, for every connection that can send the request and every
\* payload and random draw of the model.

Open(ws) == wsState[ws] = "open"

\* The output of a handler that delivers exactly one error, to ws and to nobody else
OnlyError(ws, text) ==
  [NoOutput EXCEPT ![ws] = <<[type |-> "error", message |-> text]>>]

\* The types of all messages in an output, whoever received them
SentTypes(out) == UNION {{out[w][i].type : i \in DOMAIN out[w]} : w \in Conns}

\* The connection ws is registered in a room with a game, and it is not that
\* game's current player
NotCurrent(ws) ==
  /\ Open(ws)
  /\ ~NoGame(ws)
  /\ RoomOf(ws).gameState.currentPlayerId # InfoOf(ws).playerId

\* The connection ws is the current player of its room's game
IsCurrent(ws) ==
  /\ Open(ws)
  /\ ~NoGame(ws)
  /\ RoomOf(ws).gameState.currentPlayerId = InfoOf(ws).playerId

\* Every outcome some request of the open connection ws can have
RequestOutcomes(ws) ==
  {handleCreateRoom(ws, payload, roomId) : payload \in CreateRoomPayloads, roomId \in generateRoomId}
    \cup {handleJoinRoom(ws, payload) : payload \in JoinRoomPayloads}
    \cup {handleRollDice(ws, dice1, dice2) : dice1 \in Dice, dice2 \in Dice}
    \cup {handleBuyProperty(ws, payload) : payload \in TilePayloads}
    \cup {handleBuild(ws, payload) : payload \in TilePayloads}
    \cup {handleChat(ws, payload) : payload \in ChatPayloads}
    \cup {handleLeaveRoom(ws), handleStartGame(ws), handleEndTurn(ws),
          handleUnknownType(ws), handleUnparsable(ws)}

\* Every outcome the next event at connection ws can have
EventOutcomes(ws) ==
  IF Open(ws) THEN RequestOutcomes(ws)
  ELSE IF wsState[ws] = "closed" THEN {handleDisconnect(ws)}
  ELSE {}

\* C1: in a started room, roll_dice from a connection whose player id is not
\* currentPlayerId gets the error 'Not your turn', delivered to that connection
\* only (so no dice_rolled goes out), and registry and directory - every
\* roster, currentPlayerId and lastDiceRoll - are left as they were.
C1_RollNotYourTurn ==
  \A ws \in Conns : NotCurrent(ws) =>
    \A dice1 \in Dice, dice2 \in Dice :
      LET outcome == handleRollDice(ws, dice1, dice2)
      IN /\ outcome.sent = OnlyError(ws, "Not your turn")
         /\ outcome.rooms = rooms
         /\ outcome.clients = clients

\* A player on the roster of a started room whose turn it is not
C1_Witness ==
  \E ws \in Conns :
    /\ NotCurrent(ws)
    /\ HasKey(RoomOf(ws).players, InfoOf(ws).playerId)
    /\ HasKey(RoomOf(ws).players, RoomOf(ws).gameState.currentPlayerId)

\* C2: in a started room, end_turn from a player who is not the current player
\* never changes currentPlayerId and never causes a turn_changed broadcast.
C2_EndTurnNotCurrent ==
  \A ws \in Conns : NotCurrent(ws) =>
    LET outcome == handleEndTurn(ws)
    IN /\ outcome.rooms[InfoOf(ws).roomId].gameState.currentPlayerId
            = RoomOf(ws).gameState.currentPlayerId
       /\ "turn_changed" \notin SentTypes(outcome.sent)

\* C3: in a started room, buy_property or build from a player who is not the
\* current player is answered with an error to the sender, and no
\* property_bought or building_built is broadcast.
C3_BuyBuildNotCurrent ==
  \A ws \in Conns : NotCurrent(ws) =>
    \A payload \in TilePayloads \ {NoPayload} :
      \A outcome \in {handleBuyProperty(ws, payload), handleBuild(ws, payload)} :
        /\ Len(outcome.sent[ws]) = 1
        /\ outcome.sent[ws][1].type = "error"
        /\ SentTypes(outcome.sent) \cap {"property_bought", "building_built"} = {}

\* C4: in every reachable state every room's roster is at most its maxPlayers.
C4_RosterWithinMax ==
  \A r \in DOMAIN rooms : Len(rooms[r].players) <= rooms[r].maxPlayers

\* C5: create_room never replaces or alters a room that exists: every room of
\* the directory is still there, unchanged, whatever code was generated.
C5_CreateKeepsRooms ==
  \A ws \in Conns : Open(ws) =>
    \A payload \in CreateRoomPayloads, roomId \in generateRoomId :
      LET outcome == handleCreateRoom(ws, payload, roomId)
      IN \A r \in DOMAIN rooms : r \in DOMAIN outcome.rooms /\ outcome.rooms[r] = rooms[r]

\* C6: create_room with maxPlayers outside 2..4 fails with an error to the
\* sender, creates no room and leaves directory and registry unchanged; with
\* maxPlayers in 2..4 it creates a room whose roster is exactly the creator,
\* who is host, and replies room_created with isHost = TRUE.
C6_CreateValidates ==
  \A ws \in Conns : Open(ws) =>
    \A payload \in CreateRoomPayloads \ {NoPayload}, roomId \in generateRoomId :
      LET outcome == handleCreateRoom(ws, payload, roomId)
          info == outcome.clients[ws]
      IN IF PayloadMaxPlayers(payload) \notin 2..4
           THEN /\ Len(outcome.sent[ws]) = 1
                /\ outcome.sent[ws][1].type = "error"
                /\ outcome.rooms = rooms
                /\ outcome.clients = clients
           ELSE /\ info.roomId \in DOMAIN outcome.rooms
                /\ Keys(outcome.rooms[info.roomId].players) = <<info.playerId>>
                /\ outcome.rooms[info.roomId].players[1].ws = ws
                /\ outcome.rooms[info.roomId].hostId = info.playerId
                /\ outcome.sent = [NoOutput EXCEPT ![ws] =
                                     <<[type |-> "room_created", roomId |-> info.roomId,
                                        playerId |-> info.playerId, isHost |-> TRUE]>>]

\* C7: join_room is refused with 'Room not found' for a code that is not in the
\* directory, 'Game already started' for a started room and 'Room is full' for
\* an unstarted room whose roster has maxPlayers entries; a refusal delivers
\* that one error to the sender only and leaves registry and directory as they
\* were. And no event adds an entry to the roster of a room that is started.
C7_JoinRefusals ==
  /\ \A ws \in Conns : Open(ws) =>
       \A roomId \in RoomIds :
         LET outcome == handleJoinRoom(ws, [roomId |-> roomId])
             refused(text) == /\ outcome.sent = OnlyError(ws, text)
                              /\ outcome.rooms = rooms
                              /\ outcome.clients = clients
         IN /\ roomId \notin DOMAIN rooms => refused("Room not found")
            /\ (roomId \in DOMAIN rooms /\ rooms[roomId].isStarted)
                 => refused("Game already started")
            /\ (roomId \in DOMAIN rooms /\ ~rooms[roomId].isStarted
                  /\ Len(rooms[roomId].players) = rooms[roomId].maxPlayers)
                 => refused("Room is full")
  /\ \A ws \in Conns : \A outcome \in EventOutcomes(ws) :
       \A r \in DOMAIN rooms :
         (rooms[r].isStarted /\ r \in DOMAIN outcome.rooms /\ outcome.rooms[r].isStarted)
           => \A i \in 1..Len(outcome.rooms[r].players) :
                HasKey(rooms[r].players, outcome.rooms[r].players[i].id)

\* An open connection and an unstarted room whose roster has maxPlayers entries
C7_Witness ==
  \E ws \in Conns, roomId \in DOMAIN rooms :
    /\ Open(ws)
    /\ ~rooms[roomId].isStarted
    /\ Len(rooms[roomId].players) = rooms[roomId].maxPlayers
    /\ handleJoinRoom(ws, [roomId |-> roomId]).sent = OnlyError(ws, "Room is full")

\* C8: start_game takes effect only when its sender is the room's host and the
\* roster has at least 2 players. From a connection that is not the host the
\* answer is 'Only host can start game', from the host of a roster of 1 it is
\* 'Need at least 2 players'; either way the error goes to the sender only, no
\* game_started goes out and the directory is left as it was (started flag and
\* game state included).
C8_StartOnlyByHost ==
  \A ws \in Conns : Open(ws) =>
    LET outcome == handleStartGame(ws)
        isHost == HasRoom(ws) /\ RoomOf(ws).hostId = InfoOf(ws).playerId
        refused(text) == /\ outcome.sent = OnlyError(ws, text)
                         /\ outcome.rooms = rooms
    IN /\ (HasRoom(ws) /\ ~isHost) => refused("Only host can start game")
       /\ (isHost /\ Len(RoomOf(ws).players) = 1) => refused("Need at least 2 players")
       /\ (outcome.rooms # rooms \/ "game_started" \in SentTypes(outcome.sent))
            => isHost /\ Len(RoomOf(ws).players) >= 2

\* A connection that is not the host, in an unstarted room of two or more
C8_Witness ==
  \E ws \in Conns :
    /\ Open(ws)
    /\ HasRoom(ws)
    /\ ~RoomOf(ws).isStarted
    /\ RoomOf(ws).gameState = Null
    /\ Len(RoomOf(ws).players) >= 2
    /\ HasKey(RoomOf(ws).players, InfoOf(ws).playerId)
    /\ RoomOf(ws).hostId # InfoOf(ws).playerId

\* The snapshot entry of a player when a game starts
InitialPlayer(id) ==
  [id |-> id, position |-> 0, money |-> 2000000, properties |-> <<>>, inJail |-> FALSE]

\* C9: when a game starts, currentPlayerId is the earliest-joined player on the
\* roster (ids are issued in join order, so that is the first roster entry and
\* the smallest id on the roster), and the snapshot lists the roster in order,
\* every player at position 0 with money 2,000,000, no properties, not jailed;
\* game_started carries that state.
C9_InitialGameState ==
  \A ws \in Conns : (Open(ws) /\ StartRefusal(ws) = "") =>
    LET outcome == handleStartGame(ws)
        roster == RoomOf(ws).players
        room == outcome.rooms[InfoOf(ws).roomId]
        gs == room.gameState
    IN /\ room.isStarted
       /\ room.players = roster
       /\ gs.currentPlayerId = roster[1].id
       /\ \A i \in 1..Len(roster) : gs.currentPlayerId <= roster[i].id
       /\ gs.players = [i \in 1..Len(roster) |-> InitialPlayer(roster[i].id)]
       /\ gs.lastDiceRoll = Null
       /\ outcome.sent[ws] = <<[type |-> "game_started", gameState |-> gs]>>

\* The host of an unstarted room of two or more is about to start it
C9_Witness ==
  \E ws \in Conns :
    /\ Open(ws)
    /\ StartRefusal(ws) = ""
    /\ ~RoomOf(ws).isStarted
    /\ Len(RoomOf(ws).players) >= 2

\* The player that has the turn after k end_turns in room, the roster unchanged
RECURSIVE TurnAfter(_, _)
TurnAfter(room, k) ==
  IF k = 0 THEN room.gameState.currentPlayerId
  ELSE NextPlayerId([room EXCEPT !.gameState.currentPlayerId = TurnAfter(room, k - 1)])

\* C10: an end_turn of the current player moves currentPlayerId to the next id
\* in roster order, wrapping from the last entry to the first, changes nothing
\* else, and every message it delivers is a turn_changed carrying the new id,
\* one per roster entry whose connection is open. And in every room with a
\* roster of n players and the current player on it, n end_turns bring the
\* turn back to the same player after every player had it exactly once; the
\* client's nextTurn, on the index of the same player, picks the player the
\* server picks.
C10_EndTurnRotates ==
  /\ \A ws \in Conns : IsCurrent(ws) =>
       LET outcome == handleEndTurn(ws)
           roomId == InfoOf(ws).roomId
           players == RoomOf(ws).players
           n == Len(players)
           cur == RoomOf(ws).gameState.currentPlayerId
           new == outcome.rooms[roomId].gameState.currentPlayerId
       IN /\ \E i \in 1..n : players[i].id = cur /\ new = players[(i % n) + 1].id
          /\ outcome.rooms = [rooms EXCEPT ![roomId].gameState.currentPlayerId = new]
          /\ outcome.clients = clients
          /\ \A w \in Conns :
               /\ Len(outcome.sent[w]) =
                    Cardinality({i \in 1..n : players[i].ws = w /\ Open(w)})
               /\ \A k \in 1..Len(outcome.sent[w]) :
                    outcome.sent[w][k] = [type |-> "turn_changed", currentPlayerId |-> new]
          /\ Len(outcome.sent[ws]) >= 1
  /\ \A r \in DOMAIN rooms :
       LET room == rooms[r]
           n == Len(room.players)
       IN (room.gameState # Null /\ HasKey(room.players, room.gameState.currentPlayerId))
            => /\ TurnAfter(room, n) = room.gameState.currentPlayerId
               /\ {TurnAfter(room, k) : k \in 0..(n - 1)} = {room.players[i].id : i \in 1..n}
               /\ room.players[nextTurn(IndexOf(Keys(room.players),
                                  room.gameState.currentPlayerId), n) + 1].id
                    = NextPlayerId(room)

\* The current player is the last entry of a roster of two or more: the turn
\* has moved there, and the next end_turn wraps
C10_Witness ==
  \E ws \in Conns :
    /\ IsCurrent(ws)
    /\ Len(RoomOf(ws).players) >= 2
    /\ RoomOf(ws).players[Len(RoomOf(ws).players)].id = InfoOf(ws).playerId

\* A connection (open, or closed with its 'close' callback pending) whose
\* record names a room of the directory
InRoom(ws) == wsState[ws] \in {"open", "closed"} /\ LeaveApplies(ws)

\* The roster of ws's room without the entry of ws's player id
Remaining(ws) == SelectSeq(RoomOf(ws).players, LAMBDA p : p.id # InfoOf(ws).playerId)

\* Output in which connection w has one copy of message for each entry of
\* roster whose connection is w, provided w is open, and nothing else
OnePerEntry(roster, message) ==
  [w \in Conns |->
     [k \in 1..Cardinality({i \in 1..Len(roster) : roster[i].ws = w /\ Open(w)}) |-> message]]

\* What a departure of ws's player does to the directory and what it sends:
\* the entry is off the roster, the room is gone exactly when nobody remains,
\* every other room is as it was, and one player_left goes to each entry that
\* remains and is open
Departure(ws, outcome) ==
  LET roomId == InfoOf(ws).roomId IN
  /\ DOMAIN outcome.rooms = IF Remaining(ws) = <<>> THEN DOMAIN rooms \ {roomId} ELSE DOMAIN rooms
  /\ \A r \in DOMAIN outcome.rooms :
       outcome.rooms[r] = IF r = roomId THEN [rooms[r] EXCEPT !.players = Remaining(ws)]
                          ELSE rooms[r]
  /\ outcome.sent = OnePerEntry(Remaining(ws),
                                [type |-> "player_left", playerId |-> InfoOf(ws).playerId])

\* C11: leave_room takes the leaving player off the roster of its room and
\* sends player_left to the members that remain; the room leaves the directory
\* exactly when its roster has become empty; and in every reachable state every
\* room of the directory has a roster that is not empty.
C11_LeaveRemovesPlayer ==
  /\ \A r \in DOMAIN rooms : Len(rooms[r].players) >= 1
  /\ \A ws \in Conns : (Open(ws) /\ LeaveApplies(ws)) =>
       LET outcome == handleLeaveRoom(ws)
       IN /\ Departure(ws, outcome)
          /\ outcome.clients = [clients EXCEPT ![ws] = [playerId |-> NoId, roomId |-> NoRoom]]

\* The last player of a room can leave, and so can a player of a room of two
C11_Witness ==
  /\ \E ws \in Conns : Open(ws) /\ LeaveApplies(ws) /\ Len(RoomOf(ws).players) = 1
                       /\ Remaining(ws) = <<>>
  /\ \E ws \in Conns : Open(ws) /\ LeaveApplies(ws) /\ Len(Remaining(ws)) = 1
                       /\ \E w \in Conns \ {ws} : Open(w) /\ Remaining(ws)[1].ws = w

\* C12: in every reachable state the hostId of every room is on the room's
\* roster; and when the host leaves an unstarted room in which others remain,
\* the hostId of the room becomes the first entry of the roster that remains.
C12_HostTransfers ==
  /\ \A r \in DOMAIN rooms : HasKey(rooms[r].players, rooms[r].hostId)
  /\ \A ws \in Conns :
       (Open(ws) /\ LeaveApplies(ws) /\ ~RoomOf(ws).isStarted
          /\ RoomOf(ws).hostId = InfoOf(ws).playerId /\ Remaining(ws) # <<>>)
         => handleLeaveRoom(ws).rooms[InfoOf(ws).roomId].hostId = Remaining(ws)[1].id

\* C13: when the player that holds the turn leaves or its connection closes
\* while others remain in the started room, the departure itself moves
\* currentPlayerId to a player of the roster that remains and sends
\* turn_changed; so in no reachable state does a started room have a
\* currentPlayerId that is off its roster.
C13_ForcedEndTurn ==
  /\ \A r \in DOMAIN rooms :
       rooms[r].gameState # Null => HasKey(rooms[r].players, rooms[r].gameState.currentPlayerId)
  /\ \A ws \in Conns :
       (InRoom(ws) /\ RoomOf(ws).gameState # Null
          /\ RoomOf(ws).gameState.currentPlayerId = InfoOf(ws).playerId
          /\ Remaining(ws) # <<>>)
         => LET outcome == IF Open(ws) THEN handleLeaveRoom(ws) ELSE handleDisconnect(ws)
            IN /\ HasKey(Remaining(ws),
                         outcome.rooms[InfoOf(ws).roomId].gameState.currentPlayerId)
               /\ "turn_changed" \in SentTypes(outcome.sent)

\* C14: the 'close' callback of a connection that is in a room does to the
\* directory what leave_room does - the player is off the roster, the room is
\* gone exactly when nobody remains, one player_left goes to each member that
\* remains and is open - and it removes the connection's record from the
\* registry. For a connection that has left its room already (its record
\* names no room) the callback only removes the record: nothing is sent and
\* the directory is as it was, so a leave_room followed by a close gives one
\* player_left, not two.
C14_DisconnectLeaves ==
  /\ \A ws \in Conns : wsState[ws] = "closed" =>
       LET outcome == handleDisconnect(ws)
       IN /\ outcome.clients = [w \in DOMAIN clients \ {ws} |-> clients[w]]
          /\ LeaveApplies(ws) => Departure(ws, outcome)
          /\ InfoOf(ws).roomId = NoRoom => (outcome.rooms = rooms /\ outcome.sent = NoOutput)
  /\ \A ws \in Conns : Open(ws) =>
       LET leave == handleLeaveRoom(ws)
       IN leave.clients[ws].roomId = NoRoom \/ leave.sent = NoOutput

\* A closed connection, its callback pending, in a room where an open member remains
C14_Witness ==
  \E ws \in Conns :
    /\ wsState[ws] = "closed"
    /\ LeaveApplies(ws)
    /\ HasKey(RoomOf(ws).players, InfoOf(ws).playerId)
    /\ \E i \in 1..Len(Remaining(ws)) : Open(Remaining(ws)[i].ws)

\* C16: an end_turn of the current player in a game in which no dice have been
\* rolled yet (so the player has not rolled in this turn) is rejected:
\* currentPlayerId stays and no turn_changed goes out.
C16_EndTurnNeedsRoll ==
  \A ws \in Conns : (IsCurrent(ws) /\ RoomOf(ws).gameState.lastDiceRoll = Null) =>
    LET outcome == handleEndTurn(ws)
    IN /\ outcome.rooms[InfoOf(ws).roomId].gameState.currentPlayerId = InfoOf(ws).playerId
       /\ "turn_changed" \notin SentTypes(outcome.sent)

\* A dice result as the data model describes it
WellFormedDice(result) ==
  /\ Len(result.dice) = 2
  /\ result.dice[1] \in 1..6 /\ result.dice[2] \in 1..6
  /\ result.total = result.dice[1] + result.dice[2]
  /\ result.isDouble <=> (result.dice[1] = result.dice[2])

\* C17: whatever the two draws give, the diceResult built from them has both
\* dice in 1..6, their sum as total, and isDouble exactly when the dice are
\* equal, and so has the result DiceRoller hands to its callback (these two
\* parts are about the construction alone, whatever the state: they are
\* evaluated in the state the constructor leaves). An accepted roll_dice
\* stores the result built from its draws as lastDiceRoll, and every message
\* it delivers is dice_rolled with that same result, one per open roster
\* entry. Every lastDiceRoll of a reachable state is a well-formed result.
C17_DiceResult ==
  /\ rooms = << >> =>
       \A dice1 \in DieValues, dice2 \in DieValues :
         /\ DiceResult(dice1, dice2).dice = <<dice1, dice2>>
         /\ WellFormedDice(DiceResult(dice1, dice2))
         /\ WellFormedDice(rollCallback(<<dice1, dice2>>))
  /\ \A ws \in Conns : IsCurrent(ws) =>
       \A dice1 \in Dice, dice2 \in Dice :
         LET outcome == handleRollDice(ws, dice1, dice2)
             result == outcome.rooms[InfoOf(ws).roomId].gameState.lastDiceRoll
         IN /\ result.dice = <<dice1, dice2>>
            /\ WellFormedDice(result)
            /\ outcome.sent = OnePerEntry(RoomOf(ws).players,
                                [type |-> "dice_rolled", playerId |-> InfoOf(ws).playerId,
                                 diceResult |-> result])
            /\ Len(outcome.sent[ws]) >= 1
  /\ \A r \in DOMAIN rooms :
       (rooms[r].gameState # Null /\ rooms[r].gameState.lastDiceRoll # Null)
         => WellFormedDice(rooms[r].gameState.lastDiceRoll)

\* A game in which a double has been rolled, its current player connected
C17_Witness ==
  \E ws \in Conns :
    /\ IsCurrent(ws)
    /\ RoomOf(ws).gameState.lastDiceRoll # Null
    /\ RoomOf(ws).gameState.lastDiceRoll.isDouble

\* C15: in one turn the server accepts one roll of the current player: once a
\* roll_dice of the current player has been accepted (lastDiceRoll has been
\* written), a further roll_dice of that player in the state it leaves is
\* turned away - it writes nothing and no dice_rolled goes out.
C15_OneRollPerTurn ==
  [][\A ws \in Conns :
       (/\ IsCurrent(ws)
        /\ clients' = clients
        /\ rooms' # rooms
        /\ \E dice1 \in Dice, dice2 \in Dice : rooms' = handleRollDice(ws, dice1, dice2).rooms)
       => \A dice1 \in Dice, dice2 \in Dice :
            /\ (handleRollDice(ws, dice1, dice2).rooms)' = rooms'
            /\ "dice_rolled" \notin (SentTypes(handleRollDice(ws, dice1, dice2).sent))']_vars

\* Every diceResult a roll can produce
AllDiceResults == {DiceResult(dice1, dice2) : dice1 \in DieValues, dice2 \in DieValues}

\* A dice result is about to be processed: there are players and the phase is ROLL
AwaitingRoll == gameState.players # <<>> /\ gameState.turnPhase = "ROLL"

\* The current player after the client has processed diceResult
RolledPlayer(diceResult) ==
  handleDiceRoll(diceResult).gameState.players[gameState.currentPlayerIndex + 1]

\* Processing diceResult leaves every player but the current one as it was
OthersKept(diceResult) ==
  LET after == handleDiceRoll(diceResult).gameState.players
  IN /\ Len(after) = Len(gameState.players)
     /\ \A i \in 1..Len(after) :
          i # gameState.currentPlayerIndex + 1 => after[i] = gameState.players[i]

\* C18: a move of a player at position p in 0..39 by a total t in 2..12 puts
\* the player at (p + t) mod 40, which is in 0..39, and adds 200,000 to the
\* player's money exactly when the new position is smaller than p; nothing
\* else of the player changes. And whenever a processed dice result makes the
\* current player move, position and money of that player change in this way
\* by the result's total and the other players are as they were. (The first
\* part is about movePlayer alone, whatever the state: it is evaluated in the
\* state the constructor leaves.)
C18_MoveAndSalary ==
  /\ gameState.gamePhase = "SETUP" =>
       \A p \in 0..39, t \in 2..12, m \in {0, StartMoney} :
         LET player == [NewPlayer(0) EXCEPT !.position = p, !.money = m]
             moved == movePlayer(player, t)
         IN /\ moved.position = (p + t) % 40
            /\ moved.position \in 0..39
            /\ moved.money = IF moved.position < p THEN m + 200000 ELSE m
            /\ moved = [player EXCEPT !.position = moved.position, !.money = moved.money]
  /\ AwaitingRoll =>
       \A diceResult \in AllDiceResults :
         handleDiceRoll(diceResult).gameState.turnPhase = "MOVE" =>
           LET before == getCurrentPlayer
               after == RolledPlayer(diceResult)
           IN /\ after.position = (before.position + diceResult.total) % 40
              /\ after.money = IF after.position < before.position
                                 THEN before.money + 200000 ELSE before.money
              /\ OthersKept(diceResult)

\* The current player has just moved past Start and has the salary
C18_Witness ==
  /\ gameState.players # <<>>
  /\ gameState.turnPhase = "MOVE"
  /\ getCurrentPlayer.money = StartMoney + Salary
  /\ getCurrentPlayer.position < 12
  /\ BagIn(MoveStepTimer(getCurrentPlayer.id), timers)

\* C19: a processed double adds 1 to the current player's doubles counter and
\* a processed non-double sets it to 0; a double that would bring the counter
\* to 3 puts the player on tile 10, in jail with 3 jail turns, sets the counter
\* to 0 and the phase to END_TURN, with money unchanged and no move started.
\* The other players are as they were. In every reachable state every player's
\* counter is in 0..2.
C19_DoublesCounter ==
  /\ \A i \in 1..Len(gameState.players) : gameState.players[i].doublesCount \in 0..2
  /\ AwaitingRoll =>
       \A diceResult \in AllDiceResults :
         LET before == getCurrentPlayer
             outcome == handleDiceRoll(diceResult)
             after == RolledPlayer(diceResult)
         IN /\ ~diceResult.isDouble => after.doublesCount = 0
            /\ (diceResult.isDouble /\ before.doublesCount < 2)
                 => after.doublesCount = before.doublesCount + 1
            /\ (diceResult.isDouble /\ before.doublesCount = 2)
                 => /\ after = [before EXCEPT !.position = 10, !.inJail = TRUE,
                                              !.jailTurns = 3, !.doublesCount = 0]
                    /\ outcome.gameState.turnPhase = "END_TURN"
                    /\ outcome.timers = timers
            /\ OthersKept(diceResult)

\* A player who is not in jail has rolled two doubles in a row and is to roll again
C19_Witness ==
  /\ AwaitingRoll
  /\ getCurrentPlayer.doublesCount = 2
  /\ ~getCurrentPlayer.inJail
  /\ getCurrentPlayer.position > 10

\* C20: when the current player is in jail and a double is processed, the
\* player is out of jail with 0 jail turns and has moved by the total of the
\* roll, whatever the player's doubles counter was.
C20_JailedDoubleFrees ==
  (AwaitingRoll /\ getCurrentPlayer.inJail) =>
    \A diceResult \in AllDiceResults : diceResult.isDouble =>
      LET before == getCurrentPlayer
          outcome == handleDiceRoll(diceResult)
          after == RolledPlayer(diceResult)
      IN /\ ~after.inJail
         /\ after.jailTurns = 0
         /\ after.position = (before.position + diceResult.total) % 40
         /\ outcome.gameState.turnPhase = "MOVE"

\* C21: when the current player is in jail and a non-double is processed, the
\* player's jail turns go down by 1; if that makes them 0 the player is out of
\* jail and moves by the total of the roll in the same turn, otherwise the
\* player stays in jail and the turn ends with position and money as they
\* were. In every reachable state every player's jail turns are in 0..3 and
\* the player is in jail exactly when they are more than 0.
C21_JailCountdown ==
  /\ \A i \in 1..Len(gameState.players) :
       /\ gameState.players[i].jailTurns \in 0..3
       /\ gameState.players[i].inJail <=> gameState.players[i].jailTurns > 0
  /\ (AwaitingRoll /\ getCurrentPlayer.inJail) =>
       \A diceResult \in AllDiceResults : ~diceResult.isDouble =>
         LET before == getCurrentPlayer
             outcome == handleDiceRoll(diceResult)
             after == RolledPlayer(diceResult)
         IN /\ after.jailTurns = before.jailTurns - 1
            /\ IF after.jailTurns = 0
                 THEN /\ ~after.inJail
                      /\ after.position = (before.position + diceResult.total) % 40
                      /\ outcome.gameState.turnPhase = "MOVE"
                      /\ BagIn(MoveStepTimer(before.id), outcome.timers)
                 ELSE /\ after.inJail
                      /\ after.position = before.position
                      /\ after.money = before.money
                      /\ outcome.gameState.turnPhase = "END_TURN"
                      /\ outcome.timers = timers
            /\ OthersKept(diceResult)

\* A jailed player with one jail turn left is to roll
C21_Witness ==
  /\ AwaitingRoll
  /\ getCurrentPlayer.inJail
  /\ getCurrentPlayer.jailTurns = 1
  /\ getCurrentPlayer.position = JailPosition

\* The pending tile actions of players that have landed on a city tile
CityLandings ==
  {timer \in BagToSet(timers) :
     timer.callback = "handleTileAction" /\ getTileInfo(timer.tileId).type = "city"}

\* The players after the tile action of a landing on a city tile (the draw of
\* Space Travel plays no part in it)
Landed(timer) == handleTileAction(timer.player, timer.tileId, JailPosition).gameState.players

\* The rent of a landing, as handleCityTile computes it
RentOf(timer) == calculateRent(getTileInfo(timer.tileId), tiles[timer.tileId].level)

\* floor(baseRent * (1 + 0.5 * level)), in integers
FlooredRent(baseRent, level) == baseRent + (baseRent * level) \div 2

\* The money of all players together
RECURSIVE TotalMoney(_)
TotalMoney(players) ==
  IF players = <<>> THEN 0
  ELSE players[Len(players)].money + TotalMoney(SubSeq(players, 1, Len(players) - 1))

\* C22: when a player lands on a city tile that another player owns, the rent
\* floor(baseRent * (1 + 0.5 * level)) is taken from the lander and given to
\* the owner, whichever player the owner is (the first one included) and
\* whatever the level 0..5; a landing on a tile that has no owner or is the
\* lander's own moves no money. (The rent formula is about calculateRent
\* alone: it is evaluated in the state the constructor leaves.)
C22_RentOnLanding ==
  /\ gameState.gamePhase = "SETUP" =>
       \A tileId \in DOMAIN tiles, level \in 0..MaxLevel :
         calculateRent(getTileInfo(tileId), level)
           = FlooredRent(getTileInfo(tileId).rent, level)
  /\ \A timer \in CityLandings :
       LET owner == tiles[timer.tileId].owner
           before == gameState.players
       IN IF FindsPlayer(owner) /\ owner # timer.player
            THEN Landed(timer) = [before EXCEPT ![timer.player + 1].money = @ - RentOf(timer),
                                                ![owner + 1].money = @ + RentOf(timer)]
          ELSE (owner = NoOwner \/ owner = timer.player) => Landed(timer) = before

\* C23: a rent payment conserves money: when a player lands on a city tile
\* with an owner other than the lander and has at least the rent, the money of
\* all players together is after the tile action what it was before, and no
\* player but the lander and the owner has other money than before.
C23_RentConserves ==
  \A timer \in CityLandings :
    LET owner == tiles[timer.tileId].owner
        before == gameState.players
    IN (/\ owner # NoOwner
        /\ owner # timer.player
        /\ before[timer.player + 1].money >= RentOf(timer))
         => /\ TotalMoney(Landed(timer)) = TotalMoney(before)
            /\ \A i \in DOMAIN before :
                 (i # timer.player + 1 /\ i # owner + 1)
                   => Landed(timer)[i].money = before[i].money

\* C24: no player's money is negative in any state (a rent larger than the
\* payer's balance leaves the payer at 0).
C24_MoneyNotNegative ==
  \A i \in DOMAIN gameState.players : gameState.players[i].money >= 0

\* C25: a purchase of a tile that has an owner fails and changes nothing, and
\* the owner a tile has is never replaced: neither a purchase nor a received
\* property_bought gives a tile that has an owner another owner (so a tile has
\* one owner at most, for good).
C25_OwnerIsKept ==
  \A tileId \in DOMAIN tiles : tiles[tileId].owner # NoOwner =>
    /\ \A playerId \in BuyerIds : buyProperty(playerId, tileId) = GameUntouched
    /\ \A payload \in EventPayloads :
         onPropertyBought(payload).tiles[tileId].owner = tiles[tileId].owner

\* The id in the client's GameState of the player of connection ws: its place
\* in the player list of game_started (handleRemoteDice: "Find player index by
\* turn order mirror")
LocalId(ws) == IndexOf(Keys(RoomOf(ws).gameState.players), InfoOf(ws).playerId)

\* The client has the players of the game of ws, and ws is one of them
Playing(ws) ==
  /\ Open(ws)
  /\ ~NoGame(ws)
  /\ gameState.gamePhase = "PLAYING"
  /\ FindsPlayer(LocalId(ws))

\* C26: when a player has less money than the price of a tile that has no
\* owner, a purchase of that tile fails: buyProperty leaves tile, money and
\* holdings as they were, and the server broadcasts no property_bought for the
\* player's buy_property (the player being the current player of the game).
C26_BuyNeedsFunds ==
  \A ws \in Conns : (Playing(ws) /\ IsCurrent(ws)) =>
    \A tileId \in DealTiles :
      (/\ tiles[tileId].owner = NoOwner
       /\ gameState.players[LocalId(ws) + 1].money < getTileInfo(tileId).price)
        => /\ buyProperty(LocalId(ws), tileId) = GameUntouched
           /\ "property_bought"
                \notin SentTypes(handleBuyProperty(ws, [tileId |-> tileId]).sent)

\* The tiles of a list of holdings
Holdings(player) == {player.properties[k] : k \in DOMAIN player.properties}

\* C27: a purchase that succeeds takes exactly the price from the buyer,
\* records the buyer as owner and adds the tile once to the buyer's holdings,
\* and changes nothing else. In every reachable state no player's holdings
\* have a tile twice, and they are exactly the tiles whose recorded owner is
\* that player.
C27_HoldingsAreOwned ==
  /\ \A playerId \in BuyerIds, tileId \in DealTiles :
       LET outcome == buyProperty(playerId, tileId)
           before == gameState.players[playerId + 1]
       IN outcome # GameUntouched =>
            /\ outcome.gameState.players =
                 [gameState.players EXCEPT
                    ![playerId + 1] = [before EXCEPT
                                         !.money = before.money - getTileInfo(tileId).price,
                                         !.properties = Append(before.properties, tileId)]]
            /\ outcome.tiles = [tiles EXCEPT ![tileId].owner = playerId]
            /\ tileId \notin Holdings(before)
  /\ \A i \in DOMAIN gameState.players :
       LET player == gameState.players[i]
       IN /\ Cardinality(Holdings(player)) = Len(player.properties)
          /\ Holdings(player) = {tileId \in DOMAIN tiles : tiles[tileId].owner = player.id}

\* The player may build on the tile: the player owns it, its level is below
\* 5 and the player has 100,000 * (level + 1)
MayBuild(playerId, tileId) ==
  /\ FindsPlayer(playerId)
  /\ tiles[tileId].owner = playerId
  /\ tiles[tileId].level < 5
  /\ gameState.players[playerId + 1].money >= 100000 * (tiles[tileId].level + 1)

\* C28: a build changes nothing unless the player owns the tile, the level is
\* below 5 and the player has 100,000 * (level + 1); then exactly that cost is
\* taken from the player and the level goes up by exactly 1. The server
\* broadcasts no building_built for a build that may not be made (the sender
\* being the current player of the game). Every tile's level is in 0..5, and
\* it is 0 when the tile has no owner.
C28_BuildRules ==
  /\ \A playerId \in BuyerIds, tileId \in DealTiles :
       buildOnProperty(playerId, tileId) =
         IF MayBuild(playerId, tileId)
           THEN GameOutcome([gameState EXCEPT !.players[playerId + 1].money =
                               @ - 100000 * (tiles[tileId].level + 1)],
                            [tiles EXCEPT ![tileId].level = @ + 1], timers)
           ELSE GameUntouched
  /\ \A tileId \in DOMAIN tiles :
       /\ tiles[tileId].level \in 0..5
       /\ tiles[tileId].owner = NoOwner => tiles[tileId].level = 0
  /\ \A ws \in Conns : (Playing(ws) /\ IsCurrent(ws)) =>
       \A tileId \in DealTiles : ~MayBuild(LocalId(ws), tileId) =>
         "building_built" \notin SentTypes(handleBuild(ws, [tileId |-> tileId]).sent)

\* C29: buy_property, build or end_turn from a connection that is in no room,
\* or in a room whose game has not started, is answered with one error to the
\* sender, and registry and directory are left as they were.
C29_RejectedWithError ==
  \A ws \in Conns : (Open(ws) /\ NoGame(ws)) =>
    \A outcome \in {handleBuyProperty(ws, payload) : payload \in TilePayloads \ {NoPayload}}
                    \cup {handleBuild(ws, payload) : payload \in TilePayloads \ {NoPayload}}
                    \cup {handleEndTurn(ws)} :
      /\ Len(outcome.sent[ws]) = 1
      /\ outcome.sent[ws][1].type = "error"
      /\ outcome.rooms = rooms
      /\ outcome.clients = clients

\* The deliveries of an inbox are in the order of the runs that made them
InOrder(box) == \A i \in DOMAIN box, j \in DOMAIN box : i < j => box[i] <= box[j]

C31_ClosedEntryRemoved ==
  \A ws \in Conns : (Open(ws) /\ HasRoom(ws)) =>
    LET outcome == handleChat(ws, [message |-> "hi"])
        roster == RoomOf(ws).players
        after == outcome.rooms[InfoOf(ws).roomId].players
    IN \A i \in DOMAIN roster :
         IF Open(roster[i].ws)
           THEN outcome.sent[roster[i].ws] # <<>> /\ HasKey(after, roster[i].id)
           ELSE outcome.sent[roster[i].ws] = <<>> /\ ~HasKey(after, roster[i].id)

\* Every outcome of a request of ws that the code can turn away: the refusals
\* of join_room, start_game and roll_dice, a type that is not known, a frame
\* that is not JSON, and a frame without the payload its handler destructures
Refusable(ws) ==
  {handleJoinRoom(ws, payload) : payload \in JoinRoomPayloads}
    \cup {handleCreateRoom(ws, NoPayload, roomId) : roomId \in generateRoomId}
    \cup {handleRollDice(ws, dice1, dice2) : dice1 \in Dice, dice2 \in Dice}
    \cup {handleStartGame(ws), handleBuyProperty(ws, NoPayload), handleBuild(ws, NoPayload),
          handleChat(ws, NoPayload), handleUnknownType(ws), handleUnparsable(ws)}

\* The request was turned away with an error
Rejected(outcome) == "error" \in SentTypes(outcome.sent)

\* C32: a request that is rejected with an error delivers that one error to
\* the connection that sent it and nothing to any other connection, and leaves
\* the registry, the directory - every roster and every game state - and the
\* id counter as they were.
C32_ErrorOnlyToSender ==
  \A ws \in Conns : Open(ws) =>
    \A outcome \in Refusable(ws) :
      Rejected(outcome) =>
        /\ Len(outcome.sent[ws]) = 1
        /\ outcome.sent = OnlyError(ws, outcome.sent[ws][1].message)
        /\ outcome.rooms = rooms
        /\ outcome.clients = clients
        /\ outcome.nextPid = nextPid

\* A member of a started room whose turn it is not asks for the dice and is
\* turned away, while the player whose turn it is is connected
C32_Witness ==
  \E ws \in Conns, w \in Conns :
    /\ w # ws
    /\ NotCurrent(ws)
    /\ IsCurrent(w)
    /\ InfoOf(w).roomId = InfoOf(ws).roomId
    /\ \A dice1 \in Dice, dice2 \in Dice : Rejected(handleRollDice(ws, dice1, dice2))
    /\ Rejected(handleJoinRoom(ws, [roomId |-> InfoOf(ws).roomId]))

\* Every outcome of a frame of ws that is not well formed: it is no JSON, its
\* type is not known, or it has no payload though its handler reads one
Malformed(ws) ==
  {handleCreateRoom(ws, NoPayload, roomId) : roomId \in generateRoomId}
    \cup {handleUnparsable(ws), handleUnknownType(ws), handleJoinRoom(ws, NoPayload),
          handleBuyProperty(ws, NoPayload), handleBuild(ws, NoPayload),
          handleChat(ws, NoPayload)}

\* C33: a frame that cannot be parsed, has an unknown type or lacks the payload
\* of its type is answered with one error to its sender, and registry,
\* directory and id counter are left as they were (the connection stays open:
\* no handler closes a socket).
C33_MalformedFrame ==
  \A ws \in Conns : Open(ws) =>
    \A outcome \in Malformed(ws) :
      /\ Len(outcome.sent[ws]) = 1
      /\ outcome.sent[ws][1].type = "error"
      /\ outcome.rooms = rooms
      /\ outcome.clients = clients
      /\ outcome.nextPid = nextPid

\* The index in this.players of the player the server calls by a wire id: the
\* players are listed in the order the server issued their ids
LocalIndex(wireId) == wireId - WireId(1)

\* C34: when the client has processed a turn_changed that names another player
\* than its mirror held, its GameState has moved to the next player and its
\* turn phase is ROLL, the current player of the GameState is the player the
\* server has given the turn to, and so the dice result that comes next is
\* applied, not turned away by the test of the phase.
C34_ClientFollowsTurn ==
  [][(gameState.gamePhase = "PLAYING" /\ gameServerState' # gameServerState)
       => /\ gameState'.currentPlayerIndex
               = nextTurn(gameState.currentPlayerIndex, Len(gameState.players))
          /\ gameState'.turnPhase = "ROLL"
          /\ gameState'.currentPlayerIndex = LocalIndex(gameServerState'.currentPlayerId)
          /\ \A diceResult \in DiceResults :
               (handleDiceRoll(diceResult).gameState)' # gameState']_vars

\* C35: a building_built event that names a tile raises the level the client
\* holds for that tile by exactly 1 (so k events on a tile that has no building
\* leave it at level k, up to 5), and never lowers it.
C35_EventRaisesLevel ==
  gameState.gamePhase = "PLAYING" =>
    \A payload \in EventPayloads :
      "tileId" \in DOMAIN payload =>
        LET level == tiles[payload.tileId].level
            after == onBuildingBuilt(payload).tiles[payload.tileId].level
        IN /\ level < MaxLevel => after = level + 1
           /\ after >= level

\* C36: in every reachable state a connection is on the roster of at most one
\* room, and it is on the roster of room r as player p exactly when its record
\* in the registry holds room r and player id p.
C36_RegistryMatchesRosters ==
  \A w \in Conns :
    /\ Cardinality({r \in DOMAIN rooms :
                      \E i \in DOMAIN rooms[r].players : rooms[r].players[i].ws = w}) <= 1
    /\ \A r \in DOMAIN rooms, p \in 1..MaxPids :
         (\E i \in DOMAIN rooms[r].players :
            rooms[r].players[i].ws = w /\ rooms[r].players[i].id = p)
           <=> (w \in DOMAIN clients /\ clients[w] = [playerId |-> p, roomId |-> r])

\* C37: a start_game of the host of a room that is started leaves the
\* directory as it was - the game state is not built again - and sends no
\* game_started; every room has a game state exactly when its started flag is
\* set; and no event takes the flag of a room from true to false.
C37_StartsOnce ==
  /\ \A ws \in Conns :
       (Open(ws) /\ HasRoom(ws) /\ RoomOf(ws).isStarted
          /\ RoomOf(ws).hostId = InfoOf(ws).playerId)
         => LET outcome == handleStartGame(ws)
            IN /\ outcome.rooms = rooms
               /\ "game_started" \notin SentTypes(outcome.sent)
  /\ \A r \in DOMAIN rooms : rooms[r].isStarted <=> rooms[r].gameState # Null
  /\ \A ws \in Conns : \A outcome \in EventOutcomes(ws) :
       \A r \in DOMAIN rooms \cap DOMAIN outcome.rooms :
         rooms[r].isStarted => outcome.rooms[r].isStarted

\* C38: a dice result that handleDiceRoll has accepted (the phase has left
\* ROLL for MOVE, or has gone to END_TURN at once) is followed by the turn
\* phase END_TURN, whatever tile the player lands on, provided every pending
\* timer and animation frame fires.
C38_ReachesEndTurn ==
  (gameState.turnPhase = "MOVE") ~> (gameState.turnPhase = "END_TURN")

\* Every outcome of a request of ws, or of its 'close' callback, that acts on
\* the room its record names: start_game, roll_dice, buy_property, build,
\* end_turn, chat, leave_room, disconnect
RoomOutcomes(ws) ==
  IF Open(ws)
    THEN {handleRollDice(ws, dice1, dice2) : dice1 \in Dice, dice2 \in Dice}
           \cup {handleBuyProperty(ws, payload) : payload \in TilePayloads}
           \cup {handleBuild(ws, payload) : payload \in TilePayloads}
           \cup {handleChat(ws, payload) : payload \in ChatPayloads}
           \cup {handleStartGame(ws), handleEndTurn(ws), handleLeaveRoom(ws)}
  ELSE IF wsState[ws] = "closed" THEN {handleDisconnect(ws)}
  ELSE {}

\* Connection w has nothing to do with room roomId: its record names another
\* room or none, and it has no entry on the roster of roomId
OutsideRoom(w, roomId) ==
  /\ w \in DOMAIN clients => clients[w].roomId # roomId
  /\ roomId \in DOMAIN rooms =>
       \A i \in DOMAIN rooms[roomId].players : rooms[roomId].players[i].ws # w

C40_AnimationFollowsDice ==
  AwaitingRoll =>
    \A diceResult \in DiceResults :
      LET outcome == handleDiceRoll(diceResult)
          fromPos == getCurrentPlayer.position
          toPos == outcome.gameState.players[gameState.currentPlayerIndex + 1].position
          visited == animatePlayerMovement(fromPos, toPos)
      IN outcome.gameState.turnPhase = "MOVE" =>
           /\ Len(visited) = diceResult.total
           /\ visited[Len(visited)] = toPos
           /\ outcome.timers = Schedule(timers, MoveStepTimer(getCurrentPlayer.id))

\* ------------------------------------------------------------ actions
Init ==
  /\ wsState = [w \in Conns |-> "new"]
  /\ clients = << >>
  /\ rooms = << >>
  /\ nextPid = 1
  /\ gameState = [players |-> <<>>, currentPlayerIndex |-> 0,
                  gamePhase |-> "SETUP", turnPhase |-> "ROLL"]
  /\ tiles = [tileId \in RandomInt(BoardSize) |-> [owner |-> NoOwner, level |-> 0]]
  /\ timers = EmptyBag
  /\ rolls = 0
  /\ gameServerState = [currentPlayerId |-> NoId]
  /\ inbox = [w \in Conns |-> <<>>]
  /\ committed = 0

\* ws.on('message') runs a handler on an open connection and the server is
\* left in the handler's outcome. The model stops issuing player ids after
\* MaxPids of them.
Handle(ws, outcome) ==
  /\ wsState[ws] = "open"
  /\ outcome.nextPid <= MaxPids + 1
  /\ clients' = outcome.clients
  /\ rooms' = outcome.rooms
  /\ nextPid' = outcome.nextPid
  /\ UNCHANGED <<wsState, clientVars, wireVars>>

\* wss.on('connection'): register the client (and send the welcome message)
Connection(ws) ==
  /\ wsState[ws] = "new"
  /\ \A w \in Conns : w < ws => wsState[w] # "new"
  /\ wsState' = [wsState EXCEPT ![ws] = "open"]
  /\ clients' = (ws :> [playerId |-> NoId, roomId |-> NoRoom]) @@ clients
  /\ UNCHANGED <<rooms, nextPid, clientVars, wireVars>>

\* The transport closes: readyState leaves OPEN; the 'close' callback is pending
Close(ws) ==
  /\ wsState[ws] = "open"
  /\ wsState' = [wsState EXCEPT ![ws] = "closed"]
  /\ UNCHANGED <<clients, rooms, nextPid, clientVars, wireVars>>

\* ws.on('close')
Disconnect(ws) ==
  /\ wsState[ws] = "closed"
  /\ wsState' = [wsState EXCEPT ![ws] = "gone"]
  /\ clients' = handleDisconnect(ws).clients
  /\ rooms' = handleDisconnect(ws).rooms
  /\ UNCHANGED <<nextPid, clientVars, wireVars>>

CreateRoom(ws, payload) == \E roomId \in generateRoomId : Handle(ws, handleCreateRoom(ws, payload, roomId))

JoinRoom(ws, payload) == Handle(ws, handleJoinRoom(ws, payload))

LeaveRoom(ws) == Handle(ws, handleLeaveRoom(ws))

StartGame(ws) == Handle(ws, handleStartGame(ws))

RollDice(ws) == \E dice1 \in Dice, dice2 \in Dice : Handle(ws, handleRollDice(ws, dice1, dice2))

BuyProperty(ws, payload) == Handle(ws, handleBuyProperty(ws, payload))

Build(ws, payload) == Handle(ws, handleBuild(ws, payload))

EndTurn(ws) == Handle(ws, handleEndTurn(ws))

Chat(ws, payload) == Handle(ws, handleChat(ws, payload))

UnknownType(ws) == Handle(ws, handleUnknownType(ws))

UnparsableFrame(ws) == Handle(ws, handleUnparsable(ws))

\* handleMessage's switch, and the socket events
Next ==
  \/ \E ws \in Conns : Connection(ws)
  \/ \E ws \in Conns : Close(ws)
  \/ \E ws \in Conns : Disconnect(ws)
  \/ \E ws \in Conns, payload \in CreateRoomPayloads : CreateRoom(ws, payload)
  \/ \E ws \in Conns, payload \in JoinRoomPayloads : JoinRoom(ws, payload)
  \/ \E ws \in Conns : LeaveRoom(ws)
  \/ \E ws \in Conns : StartGame(ws)
  \/ \E ws \in Conns : RollDice(ws)
  \/ \E ws \in Conns, payload \in TilePayloads : BuyProperty(ws, payload)
  \/ \E ws \in Conns, payload \in TilePayloads : Build(ws, payload)
  \/ \E ws \in Conns : EndTurn(ws)
  \/ \E ws \in Conns, payload \in ChatPayloads : Chat(ws, payload)
  \/ \E ws \in Conns : UnknownType(ws)
  \/ \E ws \in Conns : UnparsableFrame(ws)

Spec == Init /\ [][Next]_vars

\* ------------------------------------------------------------ client: actions
\* A method or callback of GameState runs to completion
GameHandle(outcome) ==
  /\ gameState' = outcome.gameState
  /\ tiles' = outcome.tiles
  /\ timers' = outcome.timers
  /\ UNCHANGED <<serverVars, wireVars>>

\* game_started arrives: syncGameFromServer calls initializePlayers. A second
\* game_started of the same client is not modelled.
InitializePlayers ==
  /\ gameState.gamePhase = "SETUP"
  /\ GameHandle(initializePlayers(DefaultNumPlayers))
  /\ gameServerState' = syncGameFromServer(WireId(1))
  /\ UNCHANGED rolls

\* dice_rolled arrives: handleRemoteDice calls handleDiceRoll(diceResult). The
\* model stops after MaxRolls results that were not turned away.
HandleDiceRoll(diceResult) ==
  /\ gameState.gamePhase = "PLAYING"
  /\ rolls < MaxRolls
  /\ GameHandle(handleDiceRoll(diceResult))
  /\ rolls' = IF gameState.turnPhase = "ROLL" THEN rolls + 1 ELSE rolls
  /\ UNCHANGED gameServerState

\* nextTurn() is called, at the place the turn flow has for it: when the turn
\* phase is END_TURN
NextTurn ==
  /\ gameState.gamePhase = "PLAYING"
  /\ gameState.turnPhase = "END_TURN"
  /\ GameHandle(nextTurnOutcome)
  /\ UNCHANGED <<rolls, gameServerState>>

\* The animation of a move has made its last step
MoveStepDone(timer) ==
  /\ BagIn(timer, timers)
  /\ timer.callback = "moveStep"
  /\ GameHandle([onPlayerLanded(timer.player) EXCEPT !.timers = @ (-) SetToBag({timer})])
  /\ UNCHANGED <<rolls, gameServerState>>

\* The timeout of onPlayerLanded fires
TileAction(timer, newPos) ==
  /\ BagIn(timer, timers)
  /\ timer.callback = "handleTileAction"
  /\ GameHandle([handleTileAction(timer.player, timer.tileId, newPos)
                   EXCEPT !.timers = @ (-) SetToBag({timer})])
  /\ UNCHANGED <<rolls, gameServerState>>

\* turn_changed arrives
TurnChanged(payload) ==
  /\ gameState.gamePhase = "PLAYING"
  /\ gameServerState' = onTurnChanged(payload)
  /\ UNCHANGED <<gameState, tiles, timers, rolls, serverVars, wireVars>>

GameNext ==
  \/ InitializePlayers
  \/ \E diceResult \in DiceResults : HandleDiceRoll(diceResult)
  \/ NextTurn
  \/ \E timer \in BagToSet(timers) : MoveStepDone(timer)
  \/ \E timer \in BagToSet(timers), newPos \in TeleportDraws : TileAction(timer, newPos)
  \/ \E payload \in TurnPayloads : TurnChanged(payload)

GameSpec == Init /\ [][GameNext]_vars

\* ------------------------------------------------------------ client: economy
\* The GameState with its purchases, builds and tile events, and rolls enough
\* for each player to land once.

\* A dice result is processed, one of the first MaxLandings
TradeRoll(diceResult) ==
  /\ rolls < MaxLandings
  /\ HandleDiceRoll(diceResult)

\* buyProperty(playerId, tileId) is called
ClientBuyProperty(playerId, tileId) ==
  /\ gameState.gamePhase = "PLAYING"
  /\ GameHandle(buyProperty(playerId, tileId))
  /\ UNCHANGED <<rolls, gameServerState>>

\* buildOnProperty(playerId, tileId) is called
BuildOnProperty(playerId, tileId) ==
  /\ gameState.gamePhase = "PLAYING"
  /\ GameHandle(buildOnProperty(playerId, tileId))
  /\ UNCHANGED <<rolls, gameServerState>>

\* property_bought arrives
PropertyBought(payload) ==
  /\ gameState.gamePhase = "PLAYING"
  /\ GameHandle(onPropertyBought(payload))
  /\ UNCHANGED <<rolls, gameServerState>>

\* building_built arrives
BuildingBuilt(payload) ==
  /\ gameState.gamePhase = "PLAYING"
  /\ GameHandle(onBuildingBuilt(payload))
  /\ UNCHANGED <<rolls, gameServerState>>

TradeNext ==
  \/ InitializePlayers
  \/ \E diceResult \in LandingDice : TradeRoll(diceResult)
  \/ NextTurn
  \/ \E timer \in BagToSet(timers) : MoveStepDone(timer)
  \/ \E timer \in BagToSet(timers), newPos \in TeleportDraws : TileAction(timer, newPos)
  \/ \E playerId \in BuyerIds, tileId \in DealTiles : ClientBuyProperty(playerId, tileId)
  \/ \E playerId \in BuyerIds, tileId \in DealTiles : BuildOnProperty(playerId, tileId)
  \/ \E payload \in EventPayloads : PropertyBought(payload)
  \/ \E payload \in EventPayloads : BuildingBuilt(payload)

TradeSpec == Init /\ [][TradeNext]_vars

\* The event loop of the browser runs every callback that setTimeout and
\* requestAnimationFrame have made pending
TimersFire ==
  /\ WF_vars(\E timer \in BagToSet(timers) : MoveStepDone(timer))
  /\ WF_vars(\E timer \in BagToSet(timers), newPos \in TeleportDraws : TileAction(timer, newPos))

FairTradeSpec == TradeSpec /\ TimersFire

\* ------------------------------------------------------------ server and client
\* A server on which a room is made and its game started, and the GameState
\* of a client of that room with its purchases and builds.

\* game_started arrives at a client of the room of ws: syncGameFromServer
\* calls initializePlayers(gameServerState.players.length)
SyncGame(ws) ==
  /\ Open(ws)
  /\ ~NoGame(ws)
  /\ gameState.gamePhase = "SETUP"
  /\ GameHandle(initializePlayers(Len(RoomOf(ws).gameState.players)))
  /\ gameServerState' = syncGameFromServer(WireId(RoomOf(ws).gameState.currentPlayerId))
  /\ UNCHANGED rolls

PlayNext ==
  \/ \E ws \in Conns : Connection(ws)
  \/ \E ws \in Conns, payload \in CreateRoomPayloads : CreateRoom(ws, payload)
  \/ \E ws \in Conns, payload \in JoinRoomPayloads : JoinRoom(ws, payload)
  \/ \E ws \in Conns : StartGame(ws)
  \/ \E ws \in Conns, payload \in TilePayloads : BuyProperty(ws, payload)
  \/ \E ws \in Conns, payload \in TilePayloads : Build(ws, payload)
  \/ \E ws \in Conns : SyncGame(ws)
  \/ \E playerId \in BuyerIds, tileId \in DealTiles : ClientBuyProperty(playerId, tileId)
  \/ \E playerId \in BuyerIds, tileId \in DealTiles : BuildOnProperty(playerId, tileId)

PlaySpec == Init /\ [][PlayNext]_vars

\* ------------------------------------------------------------ server: deliveries
\* The server with what its sockets have carried. Every handler run that
\* delivers an event (a message that is no error) is numbered, in the order
\* the runs are made, and each delivery of an event is kept in the inbox of
\* its connection as the number of its run.

\* The events among the messages a handler has delivered to one connection:
\* what broadcastToRoom has sent, and the room_joined that tells the joiner of
\* the join
Events(messages) ==
  SelectSeq(messages, LAMBDA message : message.type \notin {"error", "room_created"})

\* The run has delivered an event to some connection
Delivers(out) == \E w \in Conns : Events(out[w]) # <<>>

\* A socket on which what is sent last arrives first
Deliver_NewestFirst(box, out, run) ==
  [w \in Conns |-> [k \in 1..Len(Events(out[w])) |-> run] \o box[w]]

\* ws.send(JSON.stringify(message)): what is sent on a socket arrives after
\* everything that was sent on it before
Deliver(box, out, run) ==
  [w \in Conns |-> box[w] \o [k \in 1..Len(Events(out[w])) |-> run]]

\* The sockets after a handler run with output out
Sent(out) ==
  IF Delivers(out)
    THEN /\ committed < MaxEvents
         /\ committed' = committed + 1
         /\ inbox' = Deliver(inbox, out, committed + 1)
    ELSE UNCHANGED wireVars

\* ws.on('message'): one request of an open connection is handled
Request(ws, outcome) ==
  /\ wsState[ws] = "open"
  /\ outcome.nextPid <= MaxPids + 1
  /\ clients' = outcome.clients
  /\ rooms' = outcome.rooms
  /\ nextPid' = outcome.nextPid
  /\ Sent(outcome.sent)
  /\ UNCHANGED <<wsState, clientVars>>

\* ws.on('close')
Closed(ws) ==
  /\ wsState[ws] = "closed"
  /\ wsState' = [wsState EXCEPT ![ws] = "gone"]
  /\ clients' = handleDisconnect(ws).clients
  /\ rooms' = handleDisconnect(ws).rooms
  /\ Sent(handleDisconnect(ws).sent)
  /\ UNCHANGED <<nextPid, clientVars>>

\* A room is made when the directory has none
FirstRoom(ws, payload) ==
  /\ rooms = << >>
  /\ Open(ws)
  /\ \E roomId \in generateRoomId : Request(ws, handleCreateRoom(ws, payload, roomId))

\* Every outcome a request of ws about the room that exists can have
MemberOutcomes(ws) ==
  {handleJoinRoom(ws, payload) : payload \in JoinRoomPayloads}
    \cup {handleRollDice(ws, dice1, dice2) : dice1 \in Dice, dice2 \in Dice}
    \cup {handleBuyProperty(ws, payload) : payload \in TilePayloads}
    \cup {handleBuild(ws, payload) : payload \in TilePayloads}
    \cup {handleChat(ws, payload) : payload \in ChatPayloads}
    \cup {handleLeaveRoom(ws), handleStartGame(ws), handleEndTurn(ws)}

WireNext ==
  \/ \E ws \in Conns : Connection(ws)
  \/ \E ws \in Conns : Close(ws)
  \/ \E ws \in Conns : Closed(ws)
  \/ \E ws \in Conns, payload \in CreateRoomPayloads : FirstRoom(ws, payload)
  \/ \E ws \in Conns : Open(ws) /\ \E outcome \in MemberOutcomes(ws) : Request(ws, outcome)

WireSpec == Init /\ [][WireNext]_vars

====
